---- MODULE Spec2Model ----
(***************************************************************************)
(* Kamstrup Multical 402 meter communication (src/kamstrup_meter.py):      *)
(* the checksum engine crc_1021, the frame codec Kamstrup.send /           *)
(* Kamstrup.recv, the register decoder Kamstrup.readparameter and the      *)
(* read cycle Kamstrup.run, driven by a serial transport and a meter that  *)
(* answers (or fails to answer) each request.                              *)
(*                                                                         *)
(* Two specifications share the codec and the receive actions:            *)
(*   Spec       the meter session: construction, read cycles, the meter    *)
(*   SpecCodec  the frame codec alone: a frame written by send() is fed,   *)
(*              intact or with one bit flipped, to recv()                  *)
(***************************************************************************)
EXTENDS Integers, Sequences, FiniteSets, TLC

VARIABLES
    pc,                \* position of the caller: see the actions
    parameters,        \* Kamstrup.parameters: the configured list of names
    configured,        \* serial.Serial(...) was built by __init__
    is_open,           \* self.serial.is_open
    idx,               \* 1-based index of `parameter` in run()'s for loop
    values,            \* run()'s local dict `values`
    rx,                \* bytes waiting in the transport's input buffer
    wire,              \* bytes the meter has sent that have not arrived yet
    received_message,  \* recv()'s local receive buffer
    recv_result,       \* what recv() returned: [ok, msg] (ok = FALSE is None)
    written,           \* history: the frames written in this cycle, in order
    received,          \* history: number of recv() calls finished in this cycle
    servedIntact,      \* history: the meter answered the last request intact
    intactRead,        \* history: names whose intact own reply was delivered
                       \*   and whose recv() read a whole frame (no timeout)
    clean,             \* history: names readparameter returned a value for
    evidence,          \* history: name -> raw frame its stored value came from
    opened,            \* history: this cycle's open() succeeded
    prior,             \* history: names in the mapping the previous run()
                       \*   returned ({} when there was none)
    raisedBy,          \* history: what raised out of run(): "none", "write",
                       \*   "lookup", "overflow"
    cPrefix,           \* SpecCodec: the prefix byte given to send()
    cBody,             \* SpecCodec: the body given to send(); SpecDecoder: the
                       \*   body recv() returned
    cFlip,             \* SpecCodec: <<>> or <<position, bit>> flipped on the wire
    cInput,            \* SpecRecv: every byte the transport holds for recv()
    readvar_result,    \* SpecLegacy: what the legacy kamstrup.readvar made of
                       \*   the reply recv() returned
    dpc,               \* SpecDaemon: position of KamstrupDaemon.run
    running,           \* KamstrupDaemon.running
    published,         \* history: messages the broker client took in this
                       \*   poll cycle
    caught             \* history: an exception was caught in this poll cycle

vars == <<pc, parameters, configured, is_open, idx, values, rx, wire,
          received_message, recv_result, written, received, servedIntact,
          intactRead, clean, evidence, opened, prior, raisedBy,
          cPrefix, cBody, cFlip, cInput, readvar_result,
          dpc, running, published, caught>>

sessionVars == <<parameters, configured, is_open, idx, values, wire,
                 received, servedIntact, intactRead, clean, evidence,
                 opened, prior, raisedBy>>
codecVars == <<cPrefix, cBody, cFlip, cInput, readvar_result>>
daemonVars == <<dpc, running, published, caught>>

----------------------------------------------------------------------------
(* Bounds of the model *)

MaxParams == 2      \* longest configured parameter list
MaxBodyLen == 2     \* SpecCodec: longest body given to send()
MaxMantissa == 2    \* SpecDecoder: most mantissa bytes of an ordinary reply
MaxInputLen == 4    \* SpecRecv: most bytes of an arbitrary input to recv()

(* Program constants *)

POLY == 4129        \* 0x1021
ESCAPE == 27        \* 0x1B
TERMINATOR == 13    \* 0x0D
START == 64         \* 0x40
READ_PREFIX == 128  \* 0x80

----------------------------------------------------------------------------
(* Integer bit operations, as Python's ^ on non-negative ints *)

RECURSIVE BitXor(_, _)
BitXor(a, b) ==
    IF a = 0 THEN b
    ELSE IF b = 0 THEN a
    ELSE (((a % 2) + (b % 2)) % 2) + (2 * BitXor(a \div 2, b \div 2))

BitSet(x, mask) == (x \div mask) % 2 = 1    \* x & mask, mask a power of two

\* Op applied to the value of x: a loop variable is computed once per pass
\* and the next pass starts from its value
Then(x, Op(_)) == CHOOSE out \in {Op(v) : v \in {x}} : TRUE

----------------------------------------------------------------------------
(* Checksum engine: crc_1021 *)

\* one pass of the inner loop body (lines 88-94) for input bit `bit`
CrcShift(reg, bit) ==
    LET r1 == (2 * reg) + (IF bit THEN 1 ELSE 0)
    IN  IF BitSet(r1, 65536) THEN BitXor(r1 % 65536, POLY) ELSE r1

\* the while loop (lines 87-94) from `mask` down
RECURSIVE CrcBits(_, _, _)
CrcBits(reg, byte, mask) ==
    IF mask = 0 THEN reg
    ELSE Then(CrcShift(reg, BitSet(byte, mask)),
              LAMBDA r : CrcBits(r, byte, mask \div 2))

\* a reflected variant: the bits of each byte sampled least-significant first
RECURSIVE CrcBitsLsbFirst(_, _, _)
CrcBitsLsbFirst(reg, byte, mask) ==
    IF mask > 128 THEN reg
    ELSE Then(CrcShift(reg, BitSet(byte, mask)),
              LAMBDA r : CrcBitsLsbFirst(r, byte, mask * 2))

CrcByteLsbFirst(reg, byte) == CrcBitsLsbFirst(reg, byte, 1)

\* the while loop over mask = 0x80 .. 1 for one byte
CrcByte(reg, byte) == CrcBits(reg, byte, 128)

\* the for loop (lines 85-94) from the i-th byte of message on
RECURSIVE CrcFrom(_, _, _)
CrcFrom(reg, message, i) ==
    IF i > Len(message) THEN reg
    ELSE Then(CrcByte(reg, message[i]),
              LAMBDA r : CrcFrom(r, message, i + 1))

crc_1021(message) == CrcFrom(0, message, 1)

----------------------------------------------------------------------------
(* Frame codec, encode side: Kamstrup.send *)

\* lines 99-105 without 0x80
ESCAPE_BYTES_NO_80 == {6, 13, 27, 64}

ESCAPE_BYTES == {6, 13, 27, 64, 128}

\* lines 238-244: message.extend([0, 0]); message[-2], message[-1] = CRC
AppendCrc(msg) ==
    LET checksum == crc_1021(msg \o <<0, 0>>)
    IN  msg \o <<checksum \div 256, checksum % 256>>

\* lines 248-253 without the escaping
RECURSIVE EscapeNothing(_, _)
EscapeNothing(message, i) ==
    IF i > Len(message) THEN <<>>
    ELSE <<message[i]>> \o EscapeNothing(message, i + 1)

\* lines 248-253: the escaping loop, from the i-th byte on
RECURSIVE Escape(_, _)
Escape(message, i) ==
    IF i > Len(message) THEN <<>>
    ELSE (IF message[i] \in ESCAPE_BYTES
          THEN <<ESCAPE, BitXor(message[i], 255)>>
          ELSE <<message[i]>>) \o Escape(message, i + 1)

\* the bytearray `command` that send(prefix, msg) hands to serial.write
Command(prefix, msg) ==
    <<prefix>> \o Escape(AppendCrc(msg), 1) \o <<TERMINATOR>>

----------------------------------------------------------------------------
(* Frame codec, decode side: Kamstrup.recv *)

None == [ok |-> FALSE, msg |-> <<>>]
Some(m) == [ok |-> TRUE, msg |-> m]

\* lines 277-279 without the reset on 0x40
BufferedNoReset(buf, byte) == Append(buf, byte)

\* lines 277-279 for a byte that is read: reset on 0x40, then append
Buffered(buf, byte) ==
    Append(IF byte = START THEN <<>> ELSE buf, byte)

\* lines 284-297 with an unexpected escaped byte rejected, not only logged
RECURSIVE FilterStrict(_, _, _)
FilterStrict(rm, i, acc) ==
    IF ~(i < Len(rm) - 1) THEN Some(acc)
    ELSE IF rm[i + 1] = ESCAPE
         THEN IF i + 1 >= Len(rm) \/ BitXor(rm[i + 2], 255) \notin ESCAPE_BYTES
              THEN None
              ELSE Then(Append(acc, BitXor(rm[i + 2], 255)),
                        LAMBDA a : FilterStrict(rm, i + 2, a))
         ELSE Then(Append(acc, rm[i + 1]),
                   LAMBDA a : FilterStrict(rm, i + 1, a))

\* lines 284-297; i is the code's 0-based index, acc is filtered_message
RECURSIVE Filter(_, _, _)
Filter(rm, i, acc) ==
    IF ~(i < Len(rm) - 1) THEN Some(acc)
    ELSE IF rm[i + 1] = ESCAPE
         THEN IF i + 1 >= Len(rm)
              THEN None
              ELSE Then(Append(acc, BitXor(rm[i + 2], 255)),
                        LAMBDA a : Filter(rm, i + 2, a))
         ELSE Then(Append(acc, rm[i + 1]),
                   LAMBDA a : Filter(rm, i + 1, a))

\* filtered_message[:-2]
DropCrc(fm) == IF Len(fm) < 2 THEN <<>> ELSE SubSeq(fm, 1, Len(fm) - 2)

\* lines 283-305 without the CRC test
DecodedUnverified(rm) ==
    LET f == Filter(rm, 1, <<>>)
    IN  IF ~f.ok THEN None ELSE Some(DropCrc(f.msg))

\* lines 283-305: what recv() returns once the terminator has been buffered
Decoded(rm) ==
    Then(Filter(rm, 1, <<>>),
         LAMBDA f : IF ~f.ok THEN None
                    ELSE IF crc_1021(f.msg) # 0 THEN None
                    ELSE Some(DropCrc(f.msg)))

----------------------------------------------------------------------------
(* Register table *)

KAMSTRUP_402_PARAMS ==
    [energy |-> 60, power |-> 80, temp1 |-> 86, temp2 |-> 87,
     tempdiff |-> 89, flow |-> 74, volume |-> 68,
     minflow_m |-> 141, maxflow_m |-> 139, minflowDate_m |-> 140,
     maxflowDate_m |-> 138, minpower_m |-> 145, maxpower_m |-> 143,
     avgtemp1_m |-> 149, avgtemp2_m |-> 150, minpowerdate_m |-> 144,
     maxpowerdate_m |-> 142, minflow_y |-> 126, maxflow_y |-> 124,
     minflowdate_y |-> 125, maxflowdate_y |-> 123, minpower_y |-> 130,
     maxpower_y |-> 128, avgtemp1_y |-> 146, avgtemp2_y |-> 147,
     minpowerdate_y |-> 129, maxpowerdate_y |-> 127, temp1xm3 |-> 97,
     temp2xm3 |-> 110, infoevent |-> 113, hourcounter |-> 1004]

\* the names a configuration may list; "bogus" is in no register table
ConfigNames == {"energy", "hourcounter", "bogus"}

\* _validate_parameters without the membership test
InvalidParamsNone(params) == {}

\* _validate_parameters: the names of the list that the table lacks
InvalidParams(params) ==
    {params[i] : i \in {j \in 1..Len(params) :
                          params[j] \notin DOMAIN KAMSTRUP_402_PARAMS}}

----------------------------------------------------------------------------
(* Register value decoder: Kamstrup.readparameter after recv() *)

\* line 318 with the two address bytes in the other order
RequestBodyLowHigh(parameter) ==
    <<63, 16, 1, parameter % 256, parameter \div 256>>

\* the tuple readparameter passes to send (line 318)
RequestBody(parameter) ==
    <<63, 16, 1, parameter \div 256, parameter % 256>>

\* lines 326-332 without the echoed-address comparison
BadFormatNoAddress(m, parameter) ==
    \/ Len(m) < 4
    \/ m[1] # 63
    \/ m[2] # 16

\* lines 326-332: the "Invalid response format" condition
BadFormat(m, parameter) ==
    \/ Len(m) < 4
    \/ m[1] # 63
    \/ m[2] # 16
    \/ m[3] # parameter \div 256
    \/ m[4] # parameter % 256

\* lines 346-349: the big-endian mantissa of n bytes from m[7] (0-based) on
RECURSIVE Mantissa(_, _, _, _)
Mantissa(m, n, i, value) ==
    IF i >= n THEN value
    ELSE Mantissa(m, n, i + 1, (value * 256) + m[i + 8])

RECURSIVE Pow10(_)
Pow10(e) == IF e = 0 THEN 1 ELSE 10 * Pow10(e - 1)

\* lines 352-360: value * scale_factor as the exact fraction <<num, den>>
Scaled(value, exponent_byte) ==
    LET exponent == exponent_byte % 64
        sign == IF BitSet(exponent_byte, 128) THEN -1 ELSE 1
    IN  IF BitSet(exponent_byte, 64)
        THEN <<sign * value, Pow10(exponent)>>
        ELSE <<sign * value * Pow10(exponent), 1>>

\* the number of zero bytes the mantissa of n bytes starts with
RECURSIVE LeadingZeros(_, _, _)
LeadingZeros(m, n, i) ==
    IF i >= n \/ m[i + 8] # 0 THEN i
    ELSE LeadingZeros(m, n, i + 1)

\* line 360, value * scale_factor: Python converts the int `value` to a
\* float and raises OverflowError when it rounds to 2^1024 or more, that is
\* when value >= 2^1024 - 2^970: more than 128 significant bytes, or 128 of
\* which the leading 54 bits are all ones
TooLargeForFloat(m, n) ==
    LET z == LeadingZeros(m, n, 0)
        significant == n - z
    IN  \/ significant > 128
        \/ /\ significant = 128
           /\ \A k \in 0..5 : m[z + k + 8] = 255
           /\ m[z + 6 + 8] >= 252

NoValue == [ok |-> FALSE, val |-> <<0, 1>>]

\* outcomes of the legacy kamstrup.readvar (src/kamstrup.py): not called,
\* None, a formatted number, an exception
NotRun == [kind |-> "pending", val |-> <<"", 0, 0>>, error |-> "none"]
LegacyNone == [kind |-> "none", val |-> <<"", 0, 0>>, error |-> "none"]
LegacyValue(v) == [kind |-> "value", val |-> v, error |-> "none"]
LegacyRaised(e) == [kind |-> "raised", val |-> <<"", 0, 0>>, error |-> e]

\* "{:.2f}".format(value) of the fraction <<num, den>>: the sign, the whole
\* part and the two decimals of the text, rounded to the nearest hundredth
TwoDecimals(val) ==
    LET magnitude == IF val[1] < 0 THEN -val[1] ELSE val[1]
        whole == magnitude \div val[2]
        cents == (((magnitude % val[2]) * 100) + (val[2] \div 2)) \div val[2]
    IN  <<IF val[1] < 0 THEN "-" ELSE "",
          IF cents = 100 THEN whole + 1 ELSE whole,
          IF cents = 100 THEN 0 ELSE cents>>

\* kamstrup.py lines 174-196: from the legacy recv()'s result r to what
\* readvar returns or raises. The header test indexes the body without a
\* length test and stops at its first failing comparison; line 190 assigns
\* -i to receivedMessage, so line 192 subscripts an int.
Readvar(r, parameter) ==
    IF ~r.ok THEN LegacyNone
    ELSE LET m == r.msg IN
         IF Len(m) < 1 THEN LegacyRaised("IndexError")
         ELSE IF m[1] # 63 THEN LegacyNone
         ELSE IF Len(m) < 2 THEN LegacyRaised("IndexError")
         ELSE IF m[2] # 16 THEN LegacyNone
         ELSE IF Len(m) < 3 THEN LegacyRaised("IndexError")
         ELSE IF m[3] # parameter \div 256 THEN LegacyNone
         ELSE IF Len(m) < 4 THEN LegacyRaised("IndexError")
         ELSE IF m[4] # parameter % 256 THEN LegacyNone
         ELSE IF Len(m) < 6 THEN LegacyRaised("IndexError")
         ELSE IF m[6] > 0 /\ Len(m) < 7 + m[6] THEN LegacyRaised("IndexError")
         ELSE IF Len(m) < 7 THEN LegacyRaised("IndexError")
         ELSE IF BitSet(m[7], 64) THEN LegacyRaised("TypeError")
         ELSE IF TooLargeForFloat(m, m[6]) THEN LegacyRaised("OverflowError")
         ELSE LegacyValue(TwoDecimals(
                  <<(IF BitSet(m[7], 128) THEN -1 ELSE 1)
                        * Mantissa(m, m[6], 0, 0) * Pow10(m[7] % 64), 1>>))

\* lines 321-360: from recv()'s result r to the returned float or None
ReadValue(r, parameter) ==
    IF ~r.ok THEN NoValue
    ELSE LET m == r.msg IN
         IF BadFormat(m, parameter) THEN NoValue
         ELSE IF Len(m) < 7 THEN NoValue
         ELSE IF Len(m) < 7 + m[6] THEN NoValue
         ELSE [ok |-> TRUE, val |-> Scaled(Mantissa(m, m[6], 0, 0), m[7])]

\* lines 321-360: readparameter raises instead of returning
ReadRaises(r, parameter) ==
    /\ r.ok
    /\ ~BadFormat(r.msg, parameter)
    /\ Len(r.msg) >= 7
    /\ Len(r.msg) >= 7 + r.msg[6]
    /\ TooLargeForFloat(r.msg, r.msg[6])

----------------------------------------------------------------------------
(* The meter and the transport, as the session sees them *)

\* a register reply body: class 0x3F, subtype 0x10, echoed address, unit,
\* mantissa length, exponent byte, mantissa
ReplyBody(address, n, exponent_byte, mantissa) ==
    <<63, 16, address \div 256, address % 256, 8, n, exponent_byte>> \o mantissa

OtherAddress(address) == IF address = 60 THEN 80 ELSE 60

\* the intact reply to a request of `address`: mantissa 0x01 0x00, exponent 2
IntactReply(address) == Command(START, ReplyBody(address, 2, 2, <<1, 0>>))

\* what the meter may put on the wire for a request of `address`:
\* the intact reply, silence, and one reply per failure cause
RepliesTo(address) ==
    { [frame |-> IntactReply(address), intact |-> TRUE],
      [frame |-> <<>>, intact |-> FALSE],
      \* CRC error: one body byte changed after the CRC was computed
      [frame |-> [IntactReply(address) EXCEPT ![4] = 17], intact |-> FALSE],
      \* wrong response class, CRC valid
      [frame |-> Command(START, <<62>> \o Tail(ReplyBody(address, 2, 2, <<1, 0>>))),
       intact |-> FALSE],
      \* CRC-valid reply echoing another register's address
      [frame |-> IntactReply(OtherAddress(address)), intact |-> FALSE],
      \* short body: header cut after the unit byte
      [frame |-> Command(START, SubSeq(ReplyBody(address, 2, 2, <<1, 0>>), 1, 5)),
       intact |-> FALSE],
      \* framing error: the whole frame but for its terminator
      [frame |-> SubSeq(IntactReply(address), 1, Len(IntactReply(address)) - 1),
       intact |-> FALSE] }

\* the same, tabulated over the addresses a configuration can request
MeterReplies ==
    [address \in {KAMSTRUP_402_PARAMS[name] :
                    name \in ConfigNames \cap DOMAIN KAMSTRUP_402_PARAMS}
        |-> RepliesTo(address)]

EmptyMap == [n \in {} |-> <<0, 1>>]

\* values[parameter] = value
Put(map, name, val) ==
    [n \in DOMAIN map \cup {name} |-> IF n = name THEN val ELSE map[n]]

ParameterLists ==
    UNION {[1..n -> ConfigNames] : n \in 0..MaxParams}

\* a frame that ends in the terminator was read (recv did not time out)
WholeFrame(rm) == rm # <<>> /\ rm[Len(rm)] = TERMINATOR

----------------------------------------------------------------------------
(* The meter session *)

Init ==
    /\ pc = "new"
    /\ parameters \in ParameterLists
    /\ configured = FALSE
    /\ is_open = FALSE
    /\ idx = 0
    /\ values = EmptyMap
    /\ rx = <<>>
    /\ wire = <<>>
    /\ received_message = <<>>
    /\ recv_result = None
    /\ written = <<>>
    /\ received = 0
    /\ servedIntact = FALSE
    /\ intactRead = {}
    /\ clean = {}
    /\ evidence = EmptyMap
    /\ opened = FALSE
    /\ prior = {}
    /\ raisedBy = "none"
    /\ cPrefix = 0
    /\ cBody = <<>>
    /\ cFlip = <<>>
    /\ cInput = <<>>
    /\ readvar_result = NotRun
    /\ dpc = "none"
    /\ running = FALSE
    /\ published = <<>>
    /\ caught = FALSE

\* __init__ with a name the table lacks: _validate_parameters raises
\* ValueError before serial.Serial is built
ConstructInvalid ==
    /\ pc = "new"
    /\ InvalidParams(parameters) # {}
    /\ pc' = "invalid"
    /\ UNCHANGED <<rx, received_message, recv_result, written>>
    /\ UNCHANGED sessionVars
    /\ UNCHANGED codecVars
    /\ UNCHANGED daemonVars

\* __init__: serial.Serial(port=...) configures and opens the port
ConstructOk ==
    /\ pc = "new"
    /\ InvalidParams(parameters) = {}
    /\ configured' = TRUE
    /\ is_open' = TRUE
    /\ pc' = "idle"
    /\ UNCHANGED <<parameters, idx, values, rx, wire, received_message,
                   recv_result, written, received, servedIntact, intactRead,
                   clean, evidence, opened, prior,
                   raisedBy>>
    /\ UNCHANGED codecVars
    /\ UNCHANGED daemonVars

\* __init__: serial.Serial raises SerialException, re-raised at line 150
ConstructSerialError ==
    /\ pc = "new"
    /\ InvalidParams(parameters) = {}
    /\ pc' = "failed"
    /\ UNCHANGED <<rx, received_message, recv_result, written>>
    /\ UNCHANGED sessionVars
    /\ UNCHANGED codecVars
    /\ UNCHANGED daemonVars

\* close() with the test inverted
CloseInverted(open) == IF ~open THEN FALSE ELSE open

\* close(): is_open afterwards
Close(open) == IF open THEN FALSE ELSE open

\* run() is called on a constructed session, again and again (the poll loop)
CanStart == pc \in {"idle", "returned", "raised"}

\* run() lines 168-172 with the dict of the previous call kept
RunEnterKeepsValues ==
    /\ CanStart
    /\ values' = values
    /\ evidence' = EmptyMap
    /\ clean' = {}
    /\ intactRead' = {}
    /\ servedIntact' = FALSE
    /\ written' = <<>>
    /\ received' = 0
    /\ rx' = <<>>
    /\ wire' = <<>>
    /\ received_message' = <<>>
    /\ recv_result' = None
    /\ raisedBy' = "none"

\* run() lines 168-172: a fresh dict, the port closed if it was open
RunEnter ==
    /\ CanStart
    /\ values' = EmptyMap
    /\ evidence' = EmptyMap
    /\ clean' = {}
    /\ intactRead' = {}
    /\ servedIntact' = FALSE
    /\ written' = <<>>
    /\ received' = 0
    /\ rx' = <<>>
    /\ wire' = <<>>
    /\ received_message' = <<>>
    /\ recv_result' = None
    /\ raisedBy' = "none"

\* run() up to the first request when open() succeeds; with an empty list
\* the loop body never runs and the finally clause closes the port
RunOpened ==
    /\ RunEnter
    /\ opened' = TRUE
    /\ IF Len(parameters) = 0
       THEN /\ is_open' = Close(TRUE)
            /\ idx' = 0
            /\ pc' = "returned"
       ELSE /\ is_open' = TRUE
            /\ idx' = 1
            /\ pc' = "send"
    /\ UNCHANGED <<parameters, configured>>
    /\ UNCHANGED codecVars

\* run() called, open() succeeds
RunOpenOk == RunOpened /\ UNCHANGED prior /\ UNCHANGED daemonVars

\* run() going into its loop although open() returned False
RunOpenFailProceeds ==
    /\ RunEnter
    /\ opened' = FALSE
    /\ is_open' = Close(is_open)
    /\ IF Len(parameters) = 0
       THEN idx' = 0 /\ pc' = "returned"
       ELSE idx' = 1 /\ pc' = "send"
    /\ UNCHANGED <<parameters, configured>>
    /\ UNCHANGED codecVars
    /\ UNCHANGED prior
    /\ UNCHANGED daemonVars

\* run() when open() returns False: nothing is read, {} is returned
RunNotOpened ==
    /\ RunEnter
    /\ opened' = FALSE
    /\ is_open' = Close(is_open)
    /\ idx' = 0
    /\ pc' = "returned"
    /\ UNCHANGED <<parameters, configured>>
    /\ UNCHANGED codecVars

\* run() called, open() returns False
RunOpenFail == RunNotOpened /\ UNCHANGED prior /\ UNCHANGED daemonVars

\* the exception path out of run(): the finally clause closes the port
Raise(cause) ==
    /\ is_open' = Close(is_open)
    /\ rx' = <<>>
    /\ pc' = "raised"
    /\ raisedBy' = cause

\* readparameter's send() with every request written before any receive
SendWritePipelined ==
    /\ pc = "send"
    /\ parameters[idx] \in DOMAIN KAMSTRUP_402_PARAMS
    /\ LET param_code == KAMSTRUP_402_PARAMS[parameters[idx]] IN
       /\ written' = Append(written, Command(READ_PREFIX, RequestBody(param_code)))
       /\ \E reply \in MeterReplies[param_code] :
            /\ wire' = wire \o reply.frame
            /\ servedIntact' = reply.intact
       /\ IF idx < Len(parameters)
          THEN idx' = idx + 1 /\ pc' = "send"
          ELSE idx' = idx /\ pc' = "recv"
    /\ UNCHANGED <<parameters, configured, is_open, values, rx,
                   received_message, recv_result, received, intactRead,
                   clean, evidence, opened, prior,
                   raisedBy>>
    /\ UNCHANGED codecVars
    /\ UNCHANGED daemonVars

\* run() line 177 and readparameter line 318: look the register address up
\* (KeyError for a name the table lacks), build the request and write it;
\* the meter then answers, or not
SendWrite ==
    /\ pc = "send"
    /\ IF parameters[idx] \notin DOMAIN KAMSTRUP_402_PARAMS
       THEN /\ Raise("lookup")
            /\ UNCHANGED <<written, wire, servedIntact>>
       ELSE LET param_code == KAMSTRUP_402_PARAMS[parameters[idx]] IN
            /\ written' = Append(written,
                                 Command(READ_PREFIX, RequestBody(param_code)))
            /\ \E reply \in MeterReplies[param_code] :
                 /\ wire' = wire \o reply.frame
                 /\ servedIntact' = reply.intact
            /\ pc' = "recv"
            /\ UNCHANGED <<is_open, rx, raisedBy>>
    /\ UNCHANGED <<parameters, configured, idx, values, received_message,
                   recv_result, received, intactRead, clean, evidence,
                   opened, prior>>
    /\ UNCHANGED codecVars
    /\ UNCHANGED daemonVars

\* send(): serial.write raises; the exception leaves send (line 260),
\* readparameter and run, whose finally clause closes the port
SendWriteFail ==
    /\ pc = "send"
    /\ parameters[idx] \in DOMAIN KAMSTRUP_402_PARAMS
    /\ Raise("write")
    /\ UNCHANGED <<parameters, configured, idx, values, wire,
                   received_message, recv_result, written, received,
                   servedIntact, intactRead, clean, evidence, opened,
                   prior>>
    /\ UNCHANGED codecVars
    /\ UNCHANGED daemonVars

\* the bytes the meter has sent reach the input buffer of the open port
Arrive ==
    /\ is_open
    /\ wire # <<>>
    /\ rx' = rx \o wire
    /\ wire' = <<>>
    /\ UNCHANGED <<pc, parameters, configured, is_open, idx, values,
                   received_message, recv_result, written, received,
                   servedIntact, intactRead, clean, evidence, opened, prior,
                   raisedBy>>
    /\ UNCHANGED codecVars
    /\ UNCHANGED daemonVars

\* the timeout treated as the end of the frame: the buffer is decoded
ReadByteTimeoutDecodes ==
    /\ pc = "recv"
    /\ rx = <<>>
    /\ recv_result' = Decoded(Append(received_message, TERMINATOR))
    /\ pc' = "decode"
    /\ UNCHANGED <<rx, received_message, written>>
    /\ UNCHANGED sessionVars
    /\ UNCHANGED codecVars
    /\ UNCHANGED daemonVars

\* recv(): _read_byte times out (serial.read returned nothing): return None
ReadByteTimeout ==
    /\ pc = "recv"
    /\ rx = <<>>
    /\ recv_result' = None
    /\ pc' = "decode"
    /\ UNCHANGED <<rx, received_message, written>>
    /\ UNCHANGED sessionVars
    /\ UNCHANGED codecVars
    /\ UNCHANGED daemonVars

\* recv(): one pass of the read loop for a byte that is not the terminator
ReadByteData ==
    /\ pc = "recv"
    /\ rx # <<>>
    /\ Head(rx) # TERMINATOR
    /\ received_message' = Buffered(received_message, Head(rx))
    /\ rx' = Tail(rx)
    /\ UNCHANGED <<pc, recv_result, written>>
    /\ UNCHANGED sessionVars
    /\ UNCHANGED codecVars
    /\ UNCHANGED daemonVars

\* recv(): the terminator is read; de-escape, verify, return
ReadByteTerminator ==
    /\ pc = "recv"
    /\ rx # <<>>
    /\ Head(rx) = TERMINATOR
    /\ received_message' = Buffered(received_message, Head(rx))
    /\ rx' = Tail(rx)
    /\ recv_result' = Decoded(received_message')
    /\ pc' = "decode"
    /\ UNCHANGED written
    /\ UNCHANGED sessionVars
    /\ UNCHANGED codecVars
    /\ UNCHANGED daemonVars

\* the for loop leaves after the first parameter that yields no value
LoopContinuesWhileOk(ok, i, n) == ok /\ i < n

\* run()'s for loop: is there a next parameter after the i-th of n
LoopContinues(ok, i, n) == i < n

\* lines 179-180 with the dict rebuilt from the latest value alone
StoredLatestOnly(map, name, r) ==
    IF r.ok THEN Put(EmptyMap, name, r.val) ELSE map

\* run() lines 179-182: keep the value, or only log the failure
Stored(map, name, r) ==
    IF r.ok THEN Put(map, name, r.val) ELSE map

\* readparameter after recv() and the rest of run()'s loop body; after the
\* last parameter the finally clause closes the port and run() returns. An
\* OverflowError from line 360 leaves readparameter and run() through the
\* finally clause.
ReadParameterDone ==
    /\ pc = "decode"
    /\ IF ReadRaises(recv_result, KAMSTRUP_402_PARAMS[parameters[idx]])
       THEN /\ Raise("overflow")
            /\ UNCHANGED <<values, evidence, clean, intactRead, received,
                           received_message, recv_result, idx>>
       ELSE LET name == parameters[idx]
                r == ReadValue(recv_result, KAMSTRUP_402_PARAMS[name])
            IN  /\ values' = Stored(values, name, r)
                /\ evidence' = IF r.ok
                               THEN Put(evidence, name, received_message)
                               ELSE evidence
                /\ clean' = IF r.ok THEN clean \cup {name} ELSE clean
                /\ intactRead' = IF /\ servedIntact
                                    /\ wire = <<>>
                                    /\ WholeFrame(received_message)
                                 THEN intactRead \cup {name} ELSE intactRead
                /\ received' = received + 1
                /\ received_message' = <<>>
                /\ recv_result' = None
                /\ raisedBy' = raisedBy
                /\ IF LoopContinues(r.ok, idx, Len(parameters))
                   THEN /\ idx' = idx + 1
                        /\ pc' = "send"
                        /\ UNCHANGED <<is_open, rx>>
                   ELSE /\ idx' = idx
                        /\ pc' = "returned"
                        /\ is_open' = Close(is_open)
                        /\ rx' = <<>>
    /\ UNCHANGED <<parameters, configured, wire, written, servedIntact,
                   opened, prior>>
    /\ UNCHANGED codecVars
    /\ UNCHANGED daemonVars

Next ==
    \/ ConstructInvalid
    \/ ConstructOk
    \/ ConstructSerialError
    \/ RunOpenOk
    \/ RunOpenFail
    \/ SendWrite
    \/ SendWriteFail
    \/ Arrive
    \/ ReadByteTimeout
    \/ ReadByteData
    \/ ReadByteTerminator
    \/ ReadParameterDone

Spec == Init /\ [][Next]_vars

----------------------------------------------------------------------------
(* The meter session on a line that may babble: while recv() waits, the    *)
(* transport may deliver one more byte that is not the terminator before   *)
(* the read times out. The byte is 0x40, which recv() takes as a new start *)
(* of frame, so its buffer does not grow.                                  *)

Babble ==
    /\ pc = "recv"
    /\ is_open
    /\ rx = <<>>
    /\ rx' = <<START>>
    /\ UNCHANGED <<pc, received_message, recv_result, written>>
    /\ UNCHANGED sessionVars
    /\ UNCHANGED codecVars
    /\ UNCHANGED daemonVars

\* the steps run() takes by itself once a cycle has started: each call of
\* serial.write and serial.read returns (a read after at most its timeout)
CycleStep ==
    \/ SendWriteFail
    \/ SendWrite
    \/ ReadByteTimeout
    \/ ReadByteData
    \/ ReadByteTerminator
    \/ ReadParameterDone

NextLive ==
    \/ Next
    \/ Babble

SpecLive == Init /\ [][NextLive]_vars /\ WF_vars(CycleStep)

----------------------------------------------------------------------------
(* The frame codec alone: the frame written by send(cPrefix, cBody) is     *)
(* put, intact or with one bit flipped between the prefix byte and the     *)
(* terminator, into the input that recv() reads.                           *)

CodecBytes == {0, 12, 27, 63, 65, 128}
CodecPrefixes == {READ_PREFIX, START, ESCAPE, TERMINATOR}
CodecBodies == UNION {[1..n -> CodecBytes] : n \in 0..MaxBodyLen}

\* the positions between the prefix byte and the terminator, each with a bit
Flips(frame) == {<<p, b>> : p \in 2..(Len(frame) - 1), b \in 0..7}

Flipped(frame, flip) ==
    IF flip = <<>> THEN frame
    ELSE [frame EXCEPT ![flip[1]] = BitXor(@, 2 ^ flip[2])]

InitCodec ==
    /\ pc = "codec"
    /\ cPrefix \in CodecPrefixes
    /\ cBody \in CodecBodies
    /\ cFlip = <<>>
    /\ cInput = <<>>
    /\ readvar_result = NotRun
    /\ dpc = "none"
    /\ running = FALSE
    /\ published = <<>>
    /\ caught = FALSE
    /\ parameters = <<>>
    /\ configured = FALSE
    /\ is_open = FALSE
    /\ idx = 0
    /\ values = EmptyMap
    /\ rx = <<>>
    /\ wire = <<>>
    /\ received_message = <<>>
    /\ recv_result = None
    /\ written = <<>>
    /\ received = 0
    /\ servedIntact = FALSE
    /\ intactRead = {}
    /\ clean = {}
    /\ evidence = EmptyMap
    /\ opened = FALSE
    /\ prior = {}
    /\ raisedBy = "none"

\* send(cPrefix, cBody): the command is written; the line hands it back as
\* the input of the recv() that follows, intact or (for the two prefixes of
\* the protocol, 0x80 of requests and 0x40 of replies) with one bit flipped
CodecSend ==
    /\ pc = "codec"
    /\ LET command == Command(cPrefix, cBody) IN
       /\ written' = <<command>>
       /\ \E flip \in {<<>>} \cup (IF cPrefix \in {READ_PREFIX, START}
                                  THEN Flips(command) ELSE {}) :
            /\ cFlip' = flip
            /\ rx' = Flipped(command, flip)
    /\ pc' = "recv"
    /\ UNCHANGED <<received_message, recv_result, cPrefix, cBody, cInput,
                   readvar_result>>
    /\ UNCHANGED sessionVars
    /\ UNCHANGED daemonVars

NextCodec ==
    \/ CodecSend
    \/ ReadByteData
    \/ ReadByteTerminator

SpecCodec == InitCodec /\ [][NextCodec]_vars

----------------------------------------------------------------------------
(* The daemon: KamstrupDaemon.run polls the meter session and publishes    *)
(* what it returned; SIGINT may arrive at any point.                        *)

\* the parameter lists of a daemon that was built: not empty (daemon.py
\* line 199) and of known names only (Kamstrup.__init__ raises otherwise)
DaemonLists == {<<"energy">>, <<"energy", "hourcounter">>}

\* json.dumps(values): the members of the JSON object, name and number
Dumps(map) == {<<name, map[name]>> : name \in DOMAIN map}

\* the message mqtt_client.publish is given: create_topic("values"), payload
Message(map) == [topic |-> "values", payload |-> Dumps(map)]

\* after KamstrupDaemon.__init__: broker connected, meter session built
InitDaemon ==
    /\ dpc = "loop"
    /\ running = TRUE
    /\ published = <<>>
    /\ caught = FALSE
    /\ pc = "idle"
    /\ parameters \in DaemonLists
    /\ configured = TRUE
    /\ is_open = TRUE
    /\ idx = 0
    /\ values = EmptyMap
    /\ rx = <<>>
    /\ wire = <<>>
    /\ received_message = <<>>
    /\ recv_result = None
    /\ written = <<>>
    /\ received = 0
    /\ servedIntact = FALSE
    /\ intactRead = {}
    /\ clean = {}
    /\ evidence = EmptyMap
    /\ opened = FALSE
    /\ prior = {}
    /\ raisedBy = "none"
    /\ cPrefix = 0
    /\ cBody = <<>>
    /\ cFlip = <<>>
    /\ cInput = <<>>
    /\ readvar_result = NotRun

\* lines 241-245: the loop test passes and heat_meter.run() is entered; the
\* mapping the previous call returned is dropped for the new one
DaemonPoll ==
    /\ dpc = "loop"
    /\ running
    /\ prior' = IF pc = "returned" THEN DOMAIN values ELSE {}
    /\ dpc' = "reading"
    /\ published' = <<>>
    /\ caught' = FALSE
    /\ UNCHANGED running

\* heat_meter.run() is called and its open() succeeds
DaemonRunOpenOk == DaemonPoll /\ RunOpened

\* heat_meter.run() is called and its open() returns False
DaemonRunOpenFail == DaemonPoll /\ RunNotOpened

\* the steps of heat_meter.run() while the daemon is inside it
DaemonReading ==
    /\ dpc = "reading"
    /\ \/ SendWriteFail
       \/ SendWrite
       \/ Arrive
       \/ ReadByteTimeout
       \/ ReadByteData
       \/ ReadByteTerminator
       \/ ReadParameterDone

\* what the meter session and the transport keep while the daemon acts
meterVars == <<pc, parameters, configured, is_open, idx, values, rx, wire,
               received_message, recv_result, written, received,
               servedIntact, intactRead, clean, evidence, opened, prior,
               raisedBy>>

\* run() has returned to the daemon
Returned == dpc = "reading" /\ pc = "returned"

\* lines 247-251: a non-empty mapping is dumped and published
DaemonPublish ==
    /\ Returned
    /\ values # EmptyMap
    /\ published' = Append(published, Message(values))
    /\ dpc' = "wait"
    /\ UNCHANGED <<running, caught>>
    /\ UNCHANGED meterVars
    /\ UNCHANGED codecVars

\* lines 247-256: publish raises (mqtt_handler.py 148-153, or the broker
\* client); nothing is handed over, the daemon logs the exception
DaemonPublishFail ==
    /\ Returned
    /\ values # EmptyMap
    /\ caught' = TRUE
    /\ dpc' = "wait"
    /\ UNCHANGED <<running, published>>
    /\ UNCHANGED meterVars
    /\ UNCHANGED codecVars

\* lines 247-253 without the test: the empty mapping is published as well
DaemonNoValuesPublishes ==
    /\ Returned
    /\ values = EmptyMap
    /\ published' = Append(published, Message(values))
    /\ dpc' = "wait"
    /\ UNCHANGED <<running, caught>>
    /\ UNCHANGED meterVars
    /\ UNCHANGED codecVars

\* lines 252-253: an empty mapping is only logged
DaemonNoValues ==
    /\ Returned
    /\ values = EmptyMap
    /\ dpc' = "wait"
    /\ UNCHANGED <<running, published, caught>>
    /\ UNCHANGED meterVars
    /\ UNCHANGED codecVars

\* an exception out of run() passing through the daemon's loop
DaemonCaughtStops ==
    /\ dpc = "reading"
    /\ pc = "raised"
    /\ caught' = TRUE
    /\ dpc' = "stopped"
    /\ UNCHANGED <<running, published>>
    /\ UNCHANGED meterVars
    /\ UNCHANGED codecVars

\* lines 255-256: an exception out of heat_meter.run() is caught and logged
DaemonCaught ==
    /\ dpc = "reading"
    /\ pc = "raised"
    /\ caught' = TRUE
    /\ dpc' = "wait"
    /\ UNCHANGED <<running, published>>
    /\ UNCHANGED meterVars
    /\ UNCHANGED codecVars

\* lines 259-260: the poll interval has passed
DaemonSleepDone ==
    /\ dpc = "wait"
    /\ dpc' = "loop"
    /\ UNCHANGED <<running, published, caught>>
    /\ UNCHANGED meterVars
    /\ UNCHANGED codecVars

\* _signal_handler (lines 204-230) on SIGINT, wherever the loop is: the
\* meter is closed and sys.exit leaves the process
Shutdown ==
    /\ dpc # "stopped"
    /\ running' = FALSE
    /\ is_open' = Close(is_open)
    /\ dpc' = "stopped"
    /\ UNCHANGED <<published, caught>>
    /\ UNCHANGED <<pc, parameters, configured, idx, values, rx, wire,
                   received_message, recv_result, written, received,
                   servedIntact, intactRead, clean, evidence, opened, prior,
                   raisedBy>>
    /\ UNCHANGED codecVars

\* the steps the daemon's own thread takes
DaemonStep ==
    \/ DaemonSleepDone
    \/ DaemonNoValues
    \/ DaemonCaught
    \/ DaemonPublish
    \/ DaemonPublishFail
    \/ DaemonRunOpenOk
    \/ DaemonRunOpenFail
    \/ DaemonReading

NextDaemon ==
    \/ DaemonStep
    \/ Shutdown

SpecDaemon == InitDaemon /\ [][NextDaemon]_vars /\ WF_vars(DaemonStep)

----------------------------------------------------------------------------
(* The receiver alone: one request is outstanding and the transport holds   *)
(* any run of bytes; recv() reads them until the first terminator or, when  *)
(* they run out, until the read times out.                                  *)

\* 0x00, 0x0D, 0x1B, 0x36, 0x40, 0xB9 (the CRC of B9 36 F2 is zero)
RecvBytes == {0, 13, 27, 54, 64, 185}
\* the frame of the one-byte body b with b sent as 0x1B and its complement
EscapedByteFrame(b) ==
    <<START, ESCAPE, BitXor(b, 255)>>
        \o SubSeq(Command(START, <<b>>), 3, Len(Command(START, <<b>>)))

\* the meter's reply to the outstanding request, alone, after stray bytes,
\* after the start of an abandoned frame, and cut short; two frames that
\* end in an escape marker; the reply with its first body byte 0x3F sent as
\* an escape sequence; one-byte bodies 0x46, 0xBF, 0xF2 sent that way
RecvFrames ==
    LET reply == IntactReply(KAMSTRUP_402_PARAMS.energy)
    IN  {reply,
         <<START, ESCAPE, BitXor(reply[2], 255)>> \o SubSeq(reply, 3, Len(reply)),
         EscapedByteFrame(70),
         EscapedByteFrame(191),
         EscapedByteFrame(242),
         <<27>> \o reply,
         <<0, 54>> \o reply,
         SubSeq(reply, 1, 4) \o reply,
         SubSeq(reply, 1, Len(reply) - 1),
         <<64, 185, 54, 27, 13>>,
         <<0, 185, 54, 27, 13>>}
RecvInputs == RecvFrames \cup UNION {[1..n -> RecvBytes] : n \in 0..MaxInputLen}

InitRecv ==
    /\ pc = "recv"
    /\ cInput \in RecvInputs
    /\ readvar_result = NotRun
    /\ dpc = "none"
    /\ running = FALSE
    /\ published = <<>>
    /\ caught = FALSE
    /\ rx = cInput
    /\ parameters = <<"energy">>
    /\ written = <<Command(READ_PREFIX, RequestBody(KAMSTRUP_402_PARAMS.energy))>>
    /\ configured = TRUE
    /\ is_open = TRUE
    /\ opened = TRUE
    /\ prior = {}
    /\ idx = 1
    /\ values = EmptyMap
    /\ wire = <<>>
    /\ received_message = <<>>
    /\ recv_result = None
    /\ received = 0
    /\ servedIntact = FALSE
    /\ intactRead = {}
    /\ clean = {}
    /\ evidence = EmptyMap
    /\ raisedBy = "none"
    /\ cPrefix = 0
    /\ cBody = <<>>
    /\ cFlip = <<>>

NextRecv ==
    \/ ReadByteTimeout
    \/ ReadByteData
    \/ ReadByteTerminator

SpecRecv == InitRecv /\ [][NextRecv]_vars

----------------------------------------------------------------------------
(* The register decoder alone: one request is outstanding and recv() has    *)
(* just returned a CRC-verified body of any shape (its local receive buffer *)
(* is gone); readparameter decodes the body and the cycle ends.             *)

ExponentBytes == {0, 2, 66, 130, 193}    \* 0x00, 0x02, 0x42, 0x82, 0xC1
MantissaBytes == {0, 1, 255}
Mantissas == UNION {[1..k -> MantissaBytes] : k \in 0..MaxMantissa}

\* n bytes of value b
Repeat(b, n) == [i \in 1..n |-> b]

\* reply bodies for a request of `address`
DecoderBodies(address) ==
    \* every declared mantissa length against every mantissa present
    { ReplyBody(address, n, e, mant) :
        n \in 0..(MaxMantissa + 1), e \in ExponentBytes, mant \in Mantissas }
    \* every length from empty to a whole reply
    \cup { SubSeq(ReplyBody(address, 2, 2, <<1, 0>>), 1, k) : k \in 0..9 }
    \* another class, another register
    \cup { <<62>> \o Tail(ReplyBody(address, 2, 2, <<1, 0>>)),
           ReplyBody(OtherAddress(address), 2, 2, <<1, 0>>) }
    \* long mantissas: 129 and 128 bytes of 0xFF, 128 of them after a zero
    \* byte, and the value 7 after 39 zero bytes
    \cup { ReplyBody(address, 129, 0, Repeat(255, 129)),
           ReplyBody(address, 128, 0, Repeat(255, 128)),
           ReplyBody(address, 129, 0, <<0>> \o Repeat(255, 128)),
           ReplyBody(address, 40, 0, Repeat(0, 39) \o <<7>>) }

DecoderNames == ConfigNames \cap DOMAIN KAMSTRUP_402_PARAMS

InitDecoder ==
    /\ pc = "decode"
    /\ \E name \in DecoderNames :
         /\ parameters = <<name>>
         /\ written = <<Command(READ_PREFIX,
                                RequestBody(KAMSTRUP_402_PARAMS[name]))>>
         /\ cBody \in DecoderBodies(KAMSTRUP_402_PARAMS[name])
    /\ cPrefix = START
    /\ recv_result = Some(cBody)
    /\ received_message = <<>>
    /\ configured = TRUE
    /\ is_open = TRUE
    /\ opened = TRUE
    /\ prior = {}
    /\ idx = 1
    /\ values = EmptyMap
    /\ rx = <<>>
    /\ wire = <<>>
    /\ received = 0
    /\ servedIntact = FALSE
    /\ intactRead = {}
    /\ clean = {}
    /\ evidence = EmptyMap
    /\ raisedBy = "none"
    /\ cFlip = <<>>
    /\ cInput = <<>>
    /\ readvar_result = NotRun
    /\ dpc = "none"
    /\ running = FALSE
    /\ published = <<>>
    /\ caught = FALSE

NextDecoder == ReadParameterDone

SpecDecoder == InitDecoder /\ [][NextDecoder]_vars

----------------------------------------------------------------------------
(* The two register decoders side by side: the legacy kamstrup.readvar and  *)
(* Kamstrup.readparameter are each given the same reply to the same request. *)

\* the legacy readvar decodes the reply: its recv() returned the body cBody
LegacyReadvar ==
    /\ pc \in {"decode", "returned", "raised"}
    /\ readvar_result = NotRun
    /\ readvar_result' = Readvar(Some(cBody), KAMSTRUP_402_PARAMS[parameters[1]])
    /\ UNCHANGED <<pc, rx, received_message, recv_result, written>>
    /\ UNCHANGED <<cPrefix, cBody, cFlip, cInput>>
    /\ UNCHANGED sessionVars
    /\ UNCHANGED daemonVars

NextLegacy ==
    \/ LegacyReadvar
    \/ ReadParameterDone

SpecLegacy == InitDecoder /\ [][NextLegacy]_vars

----------------------------------------------------------------------------
(* Properties of the meter session (Spec) *)

CycleOver == pc \in {"returned", "raised"}

Address(name) == KAMSTRUP_402_PARAMS[name]

\* the request frame for each configurable name of the register table
RequestFrames ==
    [name \in ConfigNames \cap DOMAIN KAMSTRUP_402_PARAMS |->
        Command(READ_PREFIX, RequestBody(Address(name)))]

\* the request frame run() writes for the i-th configured parameter
RequestFor(i) == RequestFrames[parameters[i]]

\* C1: whenever run() has ended a read cycle -- by returning (after an open
\* failure or after any mix of per-parameter outcomes) or by an exception
\* escaping from a write -- the serial port is closed.
C1_ClosedAfterCycle == CycleOver => ~is_open

\* a cycle left by a write exception after one parameter was read cleanly
C1_Witness ==
    /\ pc = "raised" /\ raisedBy = "write"
    /\ opened /\ received = 1 /\ clean # {}
    /\ ~is_open

Payload(raw) == Filter(raw, 1, <<>>)

\* C4: every entry name -> value of the mapping, after each pass of run()'s
\* loop and when run() returns, was decoded from a received frame whose
\* de-escaped payload checksums to zero and whose echoed address bytes
\* body[2], body[3] are the register address of that same name.
C4_EntriesVerified ==
    pc \in {"send", "returned"} =>
        /\ DOMAIN evidence = DOMAIN values
        /\ \A name \in DOMAIN values :
             LET f == Payload(evidence[name]) IN
             /\ f.ok
             /\ crc_1021(f.msg) = 0
             /\ Len(f.msg) >= 6
             /\ f.msg[3] = Address(name) \div 256
             /\ f.msg[4] = Address(name) % 256

\* recv() has returned a CRC-valid reply that echoes another address than
\* the one requested, while a value of an earlier parameter is stored
C4_Witness ==
    /\ pc = "decode" /\ recv_result.ok /\ Len(recv_result.msg) >= 7
    /\ recv_result.msg[4] # Address(parameters[idx]) % 256
    /\ values # EmptyMap
    /\ parameters[idx] \notin DOMAIN values

\* C5 as claimed: a timeout costs only the parameter that timed out: every
\* parameter whose own intact reply was delivered and whose receive read a
\* whole frame is in the returned mapping.
C5_OnlyTimedOutOmitted ==
    pc = "returned" => intactRead \subseteq DOMAIN values

\* C9: a list with a name the register table lacks never yields a session:
\* construction fails before the port is configured or opened, no request
\* is ever written, and the address lookup in run() meets known names only.
C9_UnknownNameRejected ==
    /\ (\E i \in 1..Len(parameters) :
            parameters[i] \notin DOMAIN KAMSTRUP_402_PARAMS)
       => /\ pc \in {"new", "invalid"}
          /\ ~configured /\ ~is_open
          /\ written = <<>>
    /\ pc = "send" => parameters[idx] \in DOMAIN KAMSTRUP_402_PARAMS

\* construction has failed on a list whose first name is known and whose
\* second is not
C9_Witness ==
    /\ pc = "invalid" /\ Len(parameters) = 2
    /\ parameters[1] \in DOMAIN KAMSTRUP_402_PARAMS
    /\ parameters[2] \notin DOMAIN KAMSTRUP_402_PARAMS
    /\ ~configured

\* C10: the requests of a cycle are written in the order of the list, at
\* most one is outstanding, and a request is written only when the receive
\* for the previous one has finished.
C10_TurnTaking ==
    /\ Len(written) <= Len(parameters)
    /\ \A i \in 1..Len(written) : written[i] = RequestFor(i)
    /\ Len(written) - received \in {0, 1}
    /\ pc = "send" => Len(written) = received /\ idx = received + 1
    /\ pc \in {"recv", "decode"} => Len(written) = received + 1

\* the second request is outstanding after the first receive ended in a
\* timeout
C10_Witness ==
    /\ pc = "recv" /\ Len(written) = 2 /\ received = 1
    /\ parameters[1] # parameters[2]
    /\ clean = {}

\* prefix 0x80, the escaped body [0x3F, 0x10, 0x01, high, low] with its CRC,
\* and the terminator, for each configurable name of the register table
ReadRequests ==
    [name \in ConfigNames \cap DOMAIN KAMSTRUP_402_PARAMS |->
        <<128>>
        \o Escape(AppendCrc(<<63, 16, 1, Address(name) \div 256,
                              Address(name) % 256>>), 1)
        \o <<13>>]

\* C11: during one run() at most one request frame is written per entry of
\* the parameter list -- never more frames than entries the loop has reached,
\* whether the earlier reads failed or not -- and the i-th frame is exactly
\* the encoding of prefix 0x80 with body [0x3F, 0x10, 0x01, address >> 8,
\* address & 0xFF] for the i-th entry's register address.
C11_NoRetry ==
    /\ Len(written) <= idx
    /\ idx <= Len(parameters)
    /\ pc = "send" => Len(written) = idx - 1
    /\ \A i \in 1..Len(written) : written[i] = ReadRequests[parameters[i]]

\* a cycle over two entries in which both reads failed has ended with two
\* frames written
C11_Witness ==
    /\ pc = "returned" /\ opened
    /\ Len(parameters) = 2 /\ received = 2
    /\ clean = {}
    /\ Len(written) = 2

\* recv() has returned after a read timed out before any terminator
TimedOut == pc = "decode" /\ ~WholeFrame(received_message)

\* C12: when a single byte read times out before the terminator 0x0D has
\* been received, recv() returns failure whatever is buffered; and the cycle
\* of a one-parameter list whose reply timed out returns an empty mapping,
\* with the port closed.
C12_TimeoutFails ==
    /\ [](TimedOut => recv_result = None)
    /\ [][(TimedOut /\ Len(parameters) = 1 /\ pc' # pc)
            => (pc' = "returned" /\ values' = EmptyMap /\ ~is_open')]_vars

\* the reply of a one-parameter cycle arrived whole but for its terminator,
\* the next read timed out and recv() returned failure
C12_Witness ==
    /\ TimedOut /\ Len(parameters) = 1
    /\ Len(received_message) >= 9
    /\ Append(received_message, TERMINATOR) = IntactReply(Address(parameters[1]))
    /\ recv_result = None

\* run() is inside a read cycle
InCycle == pc \in {"send", "recv", "decode"}

\* C14 as claimed: every read cycle eventually completes -- run() returns or
\* raises -- for every behaviour of the transport, a transport that keeps
\* delivering bytes that are never the terminator included.
C14_CycleCompletes == InCycle ~> CycleOver

\* C22: no reading is carried over between cycles: at every point of a
\* run() and when it returns, each entry of the mapping belongs to a
\* parameter that readparameter decoded in this same run(), from a frame
\* received in it; a parameter that was in the mapping of the previous run()
\* and was not decoded in the current one is absent from the current mapping.
C22_NothingCarriedOver ==
    (InCycle \/ pc = "returned") =>
        /\ DOMAIN values \subseteq clean
        /\ DOMAIN values \subseteq DOMAIN evidence
        /\ \A name \in prior : name \notin clean => name \notin DOMAIN values

\* a parameter that the previous run() returned a value for was requested
\* again, failed, and is not in the mapping this run() returned
C22_Witness ==
    /\ pc = "returned" /\ opened
    /\ \E i \in 1..Len(parameters) :
         /\ parameters[i] \in prior
         /\ parameters[i] \notin DOMAIN values
    /\ Len(written) = Len(parameters)

\* run() has returned from a cycle whose open() failed
OpenFailed == pc = "returned" /\ ~opened

\* C19: when opening the transport fails, run() writes no frame and reads no
\* byte, returns an empty mapping without raising, and the transport is
\* closed afterwards; request writes and reads happen only in a cycle whose
\* open() succeeded and while the transport is open, and the transport is
\* closed when the cycle is over.
C19_OpenFailure ==
    /\ OpenFailed =>
          /\ written = <<>>
          /\ received = 0
          /\ received_message = <<>>
          /\ values = EmptyMap
          /\ raisedBy = "none"
          /\ ~is_open
    /\ InCycle => (opened /\ is_open)
    /\ (written # <<>> \/ received > 0 \/ received_message # <<>>) => opened
    /\ CycleOver => ~is_open

\* a cycle over a configured, non-empty list ended at the failed open
C19_Witness == OpenFailed /\ configured /\ Len(parameters) >= 1

----------------------------------------------------------------------------
(* Properties of the frame codec (SpecCodec) *)

\* recv() has returned for the frame send(cPrefix, cBody) wrote
Received == pc = "decode"

HasReserved(m) == \E i \in 1..Len(m) : m[i] \in ESCAPE_BYTES

\* C6 as claimed: for every prefix byte and body, recv() fed the exact frame
\* send(prefix, body) wrote succeeds with the original body.
C6_Original ==
    (Received /\ cFlip = <<>>) => recv_result = Some(cBody)

\* C6, amended: the same for every prefix byte other than the terminator
\* 0x0D (a frame whose prefix is 0x0D ends, for recv(), at its first byte).
C6_RoundTrip ==
    (Received /\ cFlip = <<>> /\ cPrefix # TERMINATOR)
        => recv_result = Some(cBody)

\* a round trip of a body and a CRC that both hold reserved bytes
C6_Witness ==
    /\ Received /\ cFlip = <<>> /\ cPrefix = READ_PREFIX
    /\ HasReserved(cBody)
    /\ HasReserved(SubSeq(AppendCrc(cBody), Len(cBody) + 1, Len(cBody) + 2))
    /\ recv_result = Some(cBody)

\* C7: for every message M that send() was given, with
\* c = crc_1021(M followed by two zero bytes), crc_1021 of M followed by
\* c >> 8 and c & 0xFF is 0, and c is within 0..0xFFFF.
C7_CrcResidueZero ==
    Received =>
        LET c == crc_1021(cBody \o <<0, 0>>) IN
        /\ c \in 0..65535
        /\ crc_1021(cBody \o <<c \div 256, c % 256>>) = 0

\* such a message of at least two bytes whose checksum is not zero
C7_Witness ==
    /\ Received /\ Len(cBody) >= 2
    /\ crc_1021(cBody \o <<0, 0>>) # 0
    /\ crc_1021(AppendCrc(cBody)) = 0

\* the byte of the written frame that was flipped, before and after
FlippedFrom == written[1][cFlip[1]]
FlippedTo == BitXor(FlippedFrom, 2 ^ cFlip[2])

\* C8 as claimed: no frame obtained from a valid frame by flipping one bit
\* between the prefix byte and the terminator is returned by recv() as a
\* verified payload (counting as such only a result whose de-escaped
\* payload held a body and its two CRC bytes).
C8_Original ==
    (Received /\ cFlip # <<>> /\ cPrefix # TERMINATOR)
        => ~(recv_result.ok /\ recv_result.msg # <<>>)

\* C8, amended: recv() rejects every such frame provided the flip neither
\* hits an escape marker 0x1B nor turns a byte into a framing byte (0x0D
\* terminator, 0x40 start marker, 0x1B escape marker).
C8_BitFlipRejected ==
    ( /\ Received /\ cFlip # <<>> /\ cPrefix # TERMINATOR
      /\ FlippedFrom # ESCAPE
      /\ FlippedTo \notin {TERMINATOR, START, ESCAPE} )
        => ~recv_result.ok

\* a flip in the last byte on the wire before the terminator was rejected
C8_Witness ==
    /\ Received /\ cFlip # <<>> /\ cPrefix = READ_PREFIX
    /\ cFlip[1] = Len(written[1]) - 1
    /\ FlippedFrom # ESCAPE
    /\ FlippedTo \notin {TERMINATOR, START, ESCAPE}
    /\ Len(cBody) >= 2
    /\ ~recv_result.ok

\* the frame send() wrote
Frame == written[1]

\* no byte between the prefix byte and the final terminator is 0x06, 0x0D,
\* 0x40 or 0x80, and every 0x1B there is followed, before the terminator, by
\* the complement of one of 0x06, 0x0D, 0x1B, 0x40, 0x80
InteriorEscaped(frame) ==
    \A k \in 2..(Len(frame) - 1) :
        /\ frame[k] \notin {6, 13, 64, 128}
        /\ frame[k] = 27 =>
              /\ k + 1 <= Len(frame) - 1
              /\ frame[k + 1] \in {249, 242, 228, 191, 127}

\* the frame holds one terminator, its last byte
OneTerminator(frame) ==
    /\ frame[Len(frame)] = 13
    /\ \A k \in 1..(Len(frame) - 1) : frame[k] # 13

\* a recv() that read the frame from an intact line stopped at its end and
\* holds all of it
StopsAtFrameEnd ==
    (Received /\ cFlip = <<>>) => (rx = <<>> /\ received_message = Frame)

\* C20 as claimed: in every frame written by send() the interior is escaped
\* as above; hence the frame holds exactly one terminator, as its last byte,
\* and a receiver reading it stops exactly at the frame end and is never
\* reset mid-frame.
C20_Original ==
    written # <<>> =>
        /\ InteriorEscaped(Frame)
        /\ OneTerminator(Frame)
        /\ StopsAtFrameEnd

\* C20, amended: the interior of every frame is escaped as above; when the
\* prefix byte is not the terminator 0x0D the frame holds exactly one
\* terminator, as its last byte, and a receiver reading it stops exactly at
\* the frame end without a reset after its first byte.
C20_FrameInterior ==
    written # <<>> =>
        /\ InteriorEscaped(Frame)
        /\ cPrefix # TERMINATOR => (OneTerminator(Frame) /\ StopsAtFrameEnd)

\* a frame whose body held 0x80 and 0x1B was written and read to its end
C20_Witness ==
    /\ Received /\ cFlip = <<>> /\ cPrefix = READ_PREFIX
    /\ cBody = <<128, 27>>
    /\ Len(Frame) > Len(cBody) + 4
    /\ received_message = Frame

----------------------------------------------------------------------------
(* Properties of the daemon (SpecDaemon) *)

\* the poll cycle is over (the daemon waits for the next one) and its
\* run() returned a mapping
PollReturned == dpc = "wait" /\ pc = "returned"

\* whatever was published in this poll cycle was published after run() had
\* returned and closed the transport, and is the mapping run() returned
PublishedAfterClose ==
    published # <<>> =>
        /\ pc = "returned"
        /\ ~is_open
        /\ \A i \in 1..Len(published) : published[i] = Message(values)

\* C23 as claimed: a poll cycle publishes exactly one message (the JSON of
\* the mapping, on topic suffix 'values') when the mapping the meter session
\* returned is not empty and nothing when it is empty; nothing is published
\* before the read cycle has finished and closed the transport.
C23_Original ==
    /\ (PollReturned /\ values # EmptyMap) => Len(published) = 1
    /\ (PollReturned /\ values = EmptyMap) => published = <<>>
    /\ PublishedAfterClose

\* C23, amended: the same, except that a poll cycle whose publish call
\* raised has published nothing although the mapping is not empty.
C23_PublishesOnce ==
    /\ (PollReturned /\ values # EmptyMap /\ ~caught) => Len(published) = 1
    /\ (PollReturned /\ values # EmptyMap /\ caught) => published = <<>>
    /\ (PollReturned /\ values = EmptyMap) => published = <<>>
    /\ PublishedAfterClose

\* a second poll cycle over two parameters returned one value and it was
\* published
C23_Witness ==
    /\ PollReturned /\ ~caught
    /\ prior # {}
    /\ Len(parameters) = 2
    /\ Cardinality(DOMAIN values) = 1
    /\ published = <<Message(values)>>

\* an exception was raised in the current poll cycle: out of
\* heat_meter.run(), not yet caught, or caught from it or from publish
RaisedInPoll == (dpc = "reading" /\ pc = "raised") \/ caught

\* the daemon is inside the heat_meter.run() of a later poll cycle
NextPollStarted == dpc = "reading" /\ pc # "raised" /\ ~caught

\* C24: an exception raised while reading the meter or publishing in one
\* poll cycle does not stop the daemon: from the exception on, unless a
\* shutdown is requested, the daemon comes to wait and starts the next cycle.
C24_DaemonSurvives ==
    (RaisedInPoll /\ running) ~> (NextPollStarted \/ ~running)

\* the daemon waits for the next cycle after an exception out of run()
C24_Witness ==
    /\ dpc = "wait" /\ running /\ caught
    /\ pc = "raised" /\ raisedBy = "write"

----------------------------------------------------------------------------
(* Properties of the receiver (SpecRecv) *)

\* the decoder, walking rm from 0-based index `from`, reads the byte at
\* 0-based index i as an escape marker
RECURSIVE IsMarker(_, _, _)
IsMarker(rm, from, i) ==
    IF from > i THEN FALSE
    ELSE IF rm[from + 1] = ESCAPE
         THEN from = i \/ IsMarker(rm, from + 2, i)
         ELSE IsMarker(rm, from + 1, i)

\* a whole frame whose last byte before the terminator is an escape marker
EndsInMarker(rm) ==
    /\ WholeFrame(rm)
    /\ Len(rm) >= 3
    /\ IsMarker(rm, 1, Len(rm) - 2)

\* C15 as claimed: a received frame whose escape marker 0x1B is the last
\* byte before the terminator makes recv() return failure.
C15_IncompleteEscapeFails ==
    (Received /\ EndsInMarker(received_message)) => ~recv_result.ok

\* C16 as claimed: whenever recv() returns success, the returned body is
\* the de-escaped payload less its two trailing CRC bytes, so the payload is
\* two bytes longer than the body; a payload shorter than two bytes is never
\* returned as verified.
C16_StripsExactlyTwo ==
    (Received /\ recv_result.ok) =>
        /\ Payload(received_message).ok
        /\ Len(Payload(received_message).msg) = Len(recv_result.msg) + 2
        /\ recv_result.msg = SubSeq(Payload(received_message).msg, 1,
                                    Len(recv_result.msg))

\* the bytes recv() has read
Consumed == SubSeq(cInput, 1, Len(cInput) - Len(rx))

\* s from its last 0x40 on, or all of s when it holds none
FromLastStart(s) ==
    LET starts == {k \in 1..Len(s) : s[k] = START}
    IN  IF starts = {} THEN s
        ELSE SubSeq(s, CHOOSE k \in starts : \A j \in starts : j <= k, Len(s))

\* C17: every 0x40 read empties the receive buffer and becomes its first
\* byte: when recv() returns, its buffer is what was read from the last 0x40
\* on (all that was read, when there was none), and its result is the
\* decoding of exactly those bytes when they end in the terminator, failure
\* otherwise; nothing read before that 0x40 bears on the result.
C17_Resynchronised ==
    Received =>
        /\ received_message = FromLastStart(Consumed)
        /\ recv_result = IF WholeFrame(Consumed)
                         THEN Decoded(FromLastStart(Consumed))
                         ELSE None

\* a frame read after a stray escape byte was accepted; taken together with
\* that byte it would not pass the CRC test
C17_Witness ==
    /\ Received /\ recv_result.ok
    /\ Len(Consumed) = Len(received_message) + 1
    /\ Consumed[1] = ESCAPE
    /\ Len(received_message) >= 4
    /\ ~Decoded(Consumed).ok

\* lines 272-305 as a function of the bytes the transport holds: the read
\* loop from the i-th byte on with buf buffered, then the decoding
RECURSIVE RecvLoop(_, _, _)
RecvLoop(input, i, buf) ==
    IF i > Len(input) THEN None
    ELSE Then(Buffered(buf, input[i]),
              LAMBDA b : IF input[i] = TERMINATOR THEN Decoded(b)
                         ELSE RecvLoop(input, i + 1, b))

Recv(input) == RecvLoop(input, 1, <<>>)

\* s with the two bytes at k, k + 1 replaced by the byte b
ReplacedPair(s, k, b) == SubSeq(s, 1, k - 1) \o <<b>> \o SubSeq(s, k + 2, Len(s))

\* a frame recv() reads from its first byte to its terminator, its last
ReadWhole(f) ==
    /\ Len(f) >= 3
    /\ f[Len(f)] = TERMINATOR
    /\ \A j \in 1..(Len(f) - 1) : f[j] # TERMINATOR
    /\ \A j \in 2..(Len(f) - 1) : f[j] # START

\* the byte the escape sequence at k, k + 1 of the input stands for
EscapedByte(k) == BitXor(cInput[k + 1], 255)

\* the input with the escape sequence at k replaced by the byte it stands for
LiteralFrame(k) == ReplacedPair(cInput, k, EscapedByte(k))

\* the input is a frame that carries, in place of a byte of the frame
\* LiteralFrame(k), the escape marker at k and that byte's complement
EscapedAt(k) ==
    /\ cInput[k] = ESCAPE
    /\ IsMarker(cInput, 1, k - 1)
    /\ ReadWhole(LiteralFrame(k))

\* C21 as claimed: recv() returns the same result for a frame carrying 0x1B
\* followed by the complement of a non-reserved byte b as for the frame
\* carrying b literally in that position.
C21_Original ==
    Received =>
        \A k \in 2..(Len(cInput) - 1) :
            (EscapedAt(k) /\ EscapedByte(k) \notin {6, 13, 27, 64, 128})
                => recv_result = Recv(LiteralFrame(k))

\* C21, amended: the same for every non-reserved byte b other than 0xBF and
\* 0xF2, whose complements are the start byte 0x40 and the terminator 0x0D.
C21_UnexpectedEscapeAccepted ==
    Received =>
        \A k \in 2..(Len(cInput) - 1) :
            (EscapedAt(k) /\ EscapedByte(k) \notin {6, 13, 27, 64, 128, 191, 242})
                => recv_result = Recv(LiteralFrame(k))

\* the meter's reply was accepted with its byte 0x3F sent as 1B C0
C21_Witness ==
    /\ Received /\ recv_result.ok
    /\ Len(cInput) > 6
    /\ EscapedAt(2) /\ EscapedByte(2) = 63
    /\ recv_result.msg = Recv(LiteralFrame(2)).msg
    /\ recv_result.msg[1] = 63

----------------------------------------------------------------------------
(* Properties of the register decoder (SpecDecoder) *)

\* the body recv() hands to readparameter
DecoderBody == cBody

\* the decoder's preconditions: class, subtype, echoed address, 7 header
\* bytes and the declared mantissa present
Passes(m, address) ==
    /\ Len(m) >= 7
    /\ m[1] = 63 /\ m[2] = 16
    /\ m[3] = address \div 256 /\ m[4] = address % 256
    /\ Len(m) >= 7 + m[6]

\* the unsigned big-endian integer of the n bytes body[7..7+n)
RECURSIVE BigEndian(_, _)
BigEndian(m, n) ==
    IF n = 0 THEN 0 ELSE m[7 + n] + (256 * BigEndian(m, n - 1))

\* <<num, den>> is mantissa * sign * 10^exponent of body m
IsDecodedValue(val, m) ==
    LET magnitude == m[7] % 64
        negativeExponent == (m[7] \div 64) % 2 = 1
        sign == IF m[7] >= 128 THEN -1 ELSE 1
        mantissa == BigEndian(m, m[6])
    IN  IF negativeExponent
        THEN val[1] * (10 ^ magnitude) = sign * mantissa * val[2]
        ELSE val[1] = sign * mantissa * (10 ^ magnitude) * val[2]

\* C13 as claimed: for every body that passes the decoder's preconditions,
\* readparameter returns mantissa * sign * 10^exponent (the cycle of the one
\* parameter ends by returning a mapping that holds that value).
C13_DecodesValue ==
    (CycleOver /\ Passes(DecoderBody, Address(parameters[1])))
        => /\ pc = "returned"
           /\ parameters[1] \in DOMAIN values
           /\ IsDecodedValue(values[parameters[1]], DecoderBody)

\* C18 as claimed: for every CRC-verified body of any length readparameter
\* returns a value or no value without raising, and a body shorter than 7
\* bytes or shorter than 7 + body[5] bytes yields no value.
C18_NeverRaises ==
    CycleOver =>
        /\ pc = "returned"
        /\ (Len(DecoderBody) < 7 \/ Len(DecoderBody) < 7 + DecoderBody[6])
              => values = EmptyMap

----------------------------------------------------------------------------
(* Properties of the two decoders side by side (SpecLegacy) *)

\* both decoders have been given the reply
BothDecoded == CycleOver /\ readvar_result # NotRun

\* C25 as claimed: the legacy kamstrup.readvar and Kamstrup.readparameter
\* agree on every received reply: for the same requested address and the
\* same reply either both yield no value or both yield the same number (the
\* legacy one formatted to two decimals), and neither raises.
C25_DecodersAgree ==
    BothDecoded =>
        /\ pc = "returned"
        /\ readvar_result.kind # "raised"
        /\ readvar_result.kind = "none" <=> values = EmptyMap
        /\ readvar_result.kind = "value" =>
              readvar_result.val = TwoDecimals(values[parameters[1]])

====
